---- MODULE Spec2Model ----
(***************************************************************************)
(* Model of pyverilog/utils/scope.py: ScopeLabel, the parent-pointer       *)
(* backing tree (_ScopeTreeNode), the window over it (_ScopeTree) and the  *)
(* public ScopeChain.                                                      *)
(*                                                                         *)
(* Objects live in heaps: `nodes` holds the _ScopeTreeNode objects,        *)
(* `trees` the _ScopeTree objects and `chains` the ScopeChain objects      *)
(* (each one a reference to its scopetree).  A reference is the index of   *)
(* the object in its heap, so id(x) == id(y) is equality of indices.       *)
(* Strings are sequences of one-character strings.                         *)
(***************************************************************************)
EXTENDS Integers, Sequences, FiniteSets, TLC

VARIABLES nodes, trees, chains, gen, last, labs

vars == <<nodes, trees, chains, gen, last, labs>>

(***************************************************************************)
(* Bounds of the model.                                                    *)
(***************************************************************************)
MaxChains == 3
MaxNodes == 3
MaxListLen == 2
MaxBound == 2
MaxLoop == 1

\* The null reference (parent=None, root=None, curr=None).
NoneRef == 0

(***************************************************************************)
(* Strings.                                                                *)
(***************************************************************************)
Digits == <<"0", "1", "2", "3", "4", "5", "6", "7", "8", "9">>

\* str(n) of a non-negative int.
RECURSIVE str_int(_)
str_int(n) ==
    IF n < 10 THEN <<Digits[n + 1]>>
    ELSE str_int(n \div 10) \o <<Digits[(n % 10) + 1]>>

\* s[:-k] for k >= 1.
StrDropLast(s, k) == IF k >= Len(s) THEN <<>> ELSE SubSeq(s, 1, Len(s) - k)

\* ''.join(parts)
RECURSIVE str_join(_)
str_join(parts) ==
    IF parts = <<>> THEN <<>> ELSE Head(parts) \o str_join(Tail(parts))

\* hash(x): an opaque function of the hashed value.  It is modelled as an
\* injective tag, so two hashes agree only when the hashed values agree.
hash(x) == [of |-> x]

(***************************************************************************)
(* ScopeLabel.  scopeloop is <<>> for None and <<n>> for the index n.      *)
(***************************************************************************)
scopetype_list_unprint ==
    {"generate", "always", "function", "task", "taskcall", "initial",
     "for", "while", "if"}

scopetype_list_print == {"module", "block", "signal", "functioncall"}

scopetype_list == scopetype_list_unprint \cup scopetype_list_print \cup {"any"}

ScopeLabel(scopename, scopetype, scopeloop) ==
    [scopename |-> scopename, scopetype |-> scopetype, scopeloop |-> scopeloop]

ScopeLabel_repr(l) ==
    IF l.scopeloop # <<>>
    THEN l.scopename \o <<"[">> \o str_int(l.scopeloop[1]) \o <<"]">>
    ELSE l.scopename

ScopeLabel_tocode(l) ==
    IF l.scopetype \in scopetype_list_unprint THEN <<>> ELSE l.scopename

ScopeLabel_eq(a, b) ==
    IF a.scopetype = "any" \/ b.scopetype = "any"
    THEN <<a.scopename, a.scopeloop>> = <<b.scopename, b.scopeloop>>
    ELSE <<a.scopename, a.scopetype, a.scopeloop>>
             = <<b.scopename, b.scopetype, b.scopeloop>>

\* hash((scopename, scopetype, scopeloop)): the hash over all three fields.
ScopeLabel_hash_with_type(l) == hash(<<l.scopename, <<l.scopetype>>, l.scopeloop>>)

ScopeLabel_hash(l) == hash(<<l.scopename, l.scopeloop>>)

isPrintable(l) == l.scopetype \in (scopetype_list_print \cup {"any"})

(***************************************************************************)
(* _ScopeTreeNode.                                                         *)
(***************************************************************************)
ScopeTreeNode(ns, value, parent) ==
    [value |-> value, parent |-> parent,
     len |-> IF parent = NoneRef THEN 1 ELSE ns[parent].len + 1]

\* _ScopeTreeNode.__eq__ on two node references.
RECURSIVE ScopeTreeNode_eq(_, _, _)
ScopeTreeNode_eq(ns, a, b) ==
    IF ns[a].len # ns[b].len THEN FALSE
    ELSE IF a = b THEN TRUE
    ELSE IF ns[a].parent = NoneRef /\ ns[b].parent = NoneRef
         THEN ScopeLabel_eq(ns[a].value, ns[b].value)
         ELSE /\ ScopeLabel_eq(ns[a].value, ns[b].value)
              /\ ns[a].parent # NoneRef
              /\ ns[b].parent # NoneRef
              /\ ScopeTreeNode_eq(ns, ns[a].parent, ns[b].parent)

\* `x != y` on two root references, either of which may be None.
Root_ne(ns, a, b) ==
    IF a = NoneRef /\ b = NoneRef THEN FALSE
    ELSE IF a = NoneRef \/ b = NoneRef THEN TRUE
    ELSE ~ScopeTreeNode_eq(ns, a, b)

(***************************************************************************)
(* _ScopeTree.  A tree object is a record; operators take and return the   *)
(* record, the actions store it back under the object's reference.         *)
(***************************************************************************)
ScopeTree_new ==
    [root |-> NoneRef, curr |-> NoneRef, len |-> 0, str |-> <<>>,
     hash |-> hash(<<>>)]

\* A copy that hands back the tree it was asked to copy.
ScopeTree_copy_alias(ts, t) == [trees |-> Append(ts, ts[t]), id |-> t]

\* _ScopeTree.copy(): allocates a new tree object with the same fields.
ScopeTree_copy(ts, t) == [trees |-> Append(ts, ts[t]), id |-> Len(ts) + 1]

\* len(tree): Python rejects a negative __len__.
ScopeTree_len(t) ==
    IF t.len < 0 THEN [err |-> "ValueError", val |-> 0]
    ELSE [err |-> "", val |-> t.len]

\* The walk of __iter__ from `node` up to `root`; it dereferences None when
\* root is not an ancestor of node.
RECURSIVE ScopeTree_walk_ok(_, _, _)
ScopeTree_walk_ok(ns, node, root) ==
    IF node = root THEN TRUE
    ELSE IF node = NoneRef THEN FALSE
    ELSE ScopeTree_walk_ok(ns, ns[node].parent, root)

RECURSIVE ScopeTree_walk(_, _, _)
ScopeTree_walk(ns, node, root) ==
    IF node = root \/ node = NoneRef THEN <<>>
    ELSE ScopeTree_walk(ns, ns[node].parent, root) \o <<ns[node].value>>

\* list(tree): the labels from root to curr.
ScopeTree_iter(ns, t) ==
    IF ~ScopeTree_walk_ok(ns, t.curr, t.root)
    THEN [err |-> "AttributeError", val |-> <<>>]
    ELSE [err |-> "",
          val |-> IF t.root # NoneRef
                  THEN <<ns[t.root].value>> \o ScopeTree_walk(ns, t.curr, t.root)
                  ELSE ScopeTree_walk(ns, t.curr, t.root)]

ScopeTree_eq(ns, t1, t2) ==
    IF Root_ne(ns, t1.root, t2.root) \/ t1.len # t2.len THEN FALSE
    ELSE t1.str = t2.str

ScopeTree_hash(t) == t.hash

\* A bound counted from the end when negative, and not clamped.
slice_adjust_noclamp(i, n) == IF i < 0 THEN i + n ELSE i

\* slice(start, stop, 1).indices(n): negative bounds count from the end and
\* both bounds are clamped into [0, n].
slice_adjust(i, n) ==
    IF i < 0 THEN (IF i + n < 0 THEN 0 ELSE i + n)
    ELSE IF i >= n THEN n ELSE i

slice_indices(start, stop, n) == <<slice_adjust(start, n), slice_adjust(stop, n)>>

\* The first loop of the slice branch: k steps from node toward the root.
RECURSIVE ScopeTree_walk_curr(_, _, _, _)
ScopeTree_walk_curr(ns, node, root, k) ==
    IF k <= 0 THEN [err |-> "", node |-> node]
    ELSE IF node = NoneRef \/ node = root
         THEN [err |-> "IndexError", node |-> node]
         ELSE ScopeTree_walk_curr(ns, ns[node].parent, root, k - 1)

\* The second loop: k more steps, collecting the string of the labels passed.
RECURSIVE ScopeTree_walk_root(_, _, _, _, _)
ScopeTree_walk_root(ns, node, root, k, str) ==
    IF k <= 0 THEN [err |-> "", node |-> node, str |-> str]
    ELSE IF node = NoneRef \/ node = root
         THEN [err |-> "IndexError", node |-> node, str |-> str]
         ELSE ScopeTree_walk_root(ns, ns[node].parent, root, k - 1,
                                  <<".">> \o ScopeLabel_repr(ns[node].value) \o str)

\* _ScopeTree.__getitem__(slice(start, stop, step)).  The result is the tree
\* of the returned chain.
ScopeTree_getitem_slice(ns, t, start, stop, step) ==
    LET n == ScopeTree_len(t)
        indices == slice_indices(start, stop, n.val)
        low == indices[1]
        high == indices[2]
        c == ScopeTree_walk_curr(ns, t.curr, t.root, t.len - high)
        r == ScopeTree_walk_root(ns, c.node, t.root, high - low - 1, <<>>)
        new_str == ScopeLabel_repr(ns[r.node].value) \o r.str
    IN IF n.err # "" THEN [err |-> n.err, tree |-> ScopeTree_new]
       ELSE IF step # 1 THEN [err |-> "KeyError", tree |-> ScopeTree_new]
       ELSE IF high = low THEN [err |-> "", tree |-> ScopeTree_new]
       ELSE IF c.err # "" THEN [err |-> c.err, tree |-> ScopeTree_new]
       ELSE IF r.err # "" THEN [err |-> r.err, tree |-> ScopeTree_new]
       ELSE IF r.node = NoneRef THEN [err |-> "AttributeError", tree |-> ScopeTree_new]
       ELSE [err |-> "",
             tree |-> [root |-> r.node, curr |-> c.node, len |-> high - low,
                       str |-> new_str, hash |-> hash(new_str)]]

\* _ScopeTree.__getitem__(int).
ScopeTree_getitem_int(ns, t, key) ==
    LET k == IF key < 0 THEN t.len + key ELSE key
        w == ScopeTree_walk_curr(ns, t.curr, t.root, t.len - k - 1)
    IN IF key < -t.len \/ key >= t.len THEN [err |-> "IndexError", val |-> <<>>]
       ELSE IF w.err # "" THEN [err |-> w.err, val |-> <<>>]
       ELSE IF w.node = NoneRef THEN [err |-> "AttributeError", val |-> <<>>]
       ELSE [err |-> "", val |-> <<ns[w.node].value>>]

\* _ScopeTree._new_pop() on a tree whose curr is not its root.
ScopeTree_new_pop(ns, t) ==
    LET s == StrDropLast(t.str, Len(ScopeLabel_repr(ns[t.curr].value)) + 1)
    IN [root |-> t.root, curr |-> ns[t.curr].parent, len |-> t.len - 1,
        str |-> s, hash |-> hash(s)]

\* _ScopeTree.append(label, _rehash): allocates the node and updates the tree.
\* Label names are non-empty identifiers, so _str is non-empty whenever curr
\* is set and the assertion of line 223 holds.
ScopeTree_append(ns, t, label, rehash) ==
    LET id == Len(ns) + 1
        s == IF t.curr = NoneRef THEN ScopeLabel_repr(label)
             ELSE t.str \o <<".">> \o ScopeLabel_repr(label)
    IN [nodes |-> Append(ns, ScopeTreeNode(ns, label, t.curr)),
        tree |-> [root |-> IF t.curr = NoneRef THEN id ELSE t.root,
                  curr |-> id, len |-> t.len + 1, str |-> s,
                  hash |-> IF rehash THEN hash(s) ELSE t.hash]]

\* The loop of append calls over a list of labels.
RECURSIVE ScopeTree_append_all(_, _, _, _)
ScopeTree_append_all(ns, t, labels, rehash) ==
    IF labels = <<>> THEN [nodes |-> ns, tree |-> t]
    ELSE LET a == ScopeTree_append(ns, t, Head(labels), rehash)
         IN ScopeTree_append_all(a.nodes, a.tree, Tail(labels), rehash)

\* _ScopeTree.extend(scopechain), given the labels list(scopechain) yields.
ScopeTree_extend(ns, t, labels) ==
    LET e == ScopeTree_append_all(ns, t, labels, FALSE)
    IN [nodes |-> e.nodes, tree |-> [e.tree EXCEPT !.hash = hash(e.tree.str)]]

(***************************************************************************)
(* ScopeChain: pure methods on the chain with reference c.                 *)
(***************************************************************************)
Tree(c) == trees[chains[c]]

ScopeChain_len(c) == ScopeTree_len(Tree(c))

ScopeChain_eq(c1, c2) == ScopeTree_eq(nodes, Tree(c1), Tree(c2))

ScopeChain_hash(c) == ScopeTree_hash(Tree(c))

ScopeChain_iter(c) == ScopeTree_iter(nodes, Tree(c))

\* A round that appends the pending token before the name.
tocode_step_token_first(st, scope) ==
    LET l == ScopeLabel_tocode(scope)
        r1 == IF st[2] # <<>> THEN st[1] \o st[2] ELSE st[1]
        r2 == IF l # <<>> THEN r1 \o <<l>> ELSE r1
        r3 == IF l # <<>> THEN r2 \o <<<<"_">>>> ELSE r2
        it == IF scope.scopetype = "for" /\ scope.scopeloop # <<>>
              THEN <<<<"_">> \o str_int(scope.scopeloop[1]) \o <<"_">>>>
              ELSE <<>>
    IN <<r3, it>>

\* One round of the loop of tocode: st = <<ret, it>>.
tocode_step(st, scope) ==
    LET l == ScopeLabel_tocode(scope)
        r1 == IF l # <<>> THEN st[1] \o <<l>> ELSE st[1]
        r2 == IF st[2] # <<>> THEN r1 \o st[2] ELSE r1
        r3 == IF l # <<>> THEN r2 \o <<<<"_">>>> ELSE r2
        it == IF scope.scopetype = "for" /\ scope.scopeloop # <<>>
              THEN <<<<"_">> \o str_int(scope.scopeloop[1]) \o <<"_">>>>
              ELSE <<>>
    IN <<r3, it>>

RECURSIVE tocode_loop(_, _)
tocode_loop(st, scopes) ==
    IF scopes = <<>> THEN st
    ELSE tocode_loop(tocode_step(st, Head(scopes)), Tail(scopes))

\* ScopeChain.tocode() over the labels the chain iterates.
ScopeChain_tocode(scopes) ==
    LET ret == tocode_loop(<<<<>>, <<>>>>, scopes)[1]
    IN str_join(StrDropLast(ret, 1))

(***************************************************************************)
(* Inputs.                                                                 *)
(***************************************************************************)
\* All sequences over S of length at most n.
RECURSIVE SeqsUpTo(_, _)
SeqsUpTo(S, n) ==
    IF n = 0 THEN {<<>>}
    ELSE LET P == SeqsUpTo(S, n - 1)
         IN P \cup {Append(p, x) : p \in P, x \in S}

\* Labels of the chain operations: two names, and two kinds under one name.
ChainLabels ==
    {ScopeLabel(<<"a">>, "module", <<>>),
     ScopeLabel(<<"b">>, "module", <<>>),
     ScopeLabel(<<"b">>, "block", <<>>)}

\* Labels of the rendering: for / if / block labels, with and without index.
RenderLabels ==
    {ScopeLabel(n, k, i) : n \in {<<"L">>, <<"b", "o", "d", "y">>},
                           k \in {"for", "if", "block"},
                           i \in {<<>>, <<3>>}}

\* Arguments of the ScopeLabel constructor.
LabelNames == {<<"a">>, <<"b">>}
LabelTypes == {"module", "for", "any", "bogus"}
LabelLoops == {<<>>} \cup {<<i>> : i \in 0..MaxLoop}

(***************************************************************************)
(* State.                                                                  *)
(***************************************************************************)
\* The record of the call in progress: its operands, what it raised or
\* returned (tree: the reference of the returned chain's tree), whether the
\* caller stores the returned chain, and the sizes of the heaps at the call.
NoLast ==
    [op |-> "none", c |-> 0, r |-> 0, labels |-> <<>>, lo |-> 0, hi |-> 0,
     step |-> 0, tree |-> 0, kept |-> FALSE, mark |-> <<0, 0>>, err |-> "",
     val |-> <<>>, str |-> <<>>]

\* The generator object of less_qual_iter: its position, the chain it was
\* called on, its local tmp_tree and the trees of the chains it has yielded.
NoGen ==
    [pc |-> "none", self |-> 0, tmp |-> ScopeTree_new, yielded |-> <<>>,
     err |-> ""]

\* Two label slots and the results of comparing and hashing them.
NoLabs ==
    [pc |-> "none", a |-> <<>>, b |-> <<>>, err |-> "",
     eq_ab |-> FALSE, eq_ba |-> FALSE, hash_a |-> <<>>, hash_b |-> <<>>]

Init ==
    /\ nodes = <<>>
    /\ trees = <<>>
    /\ chains = <<>>
    /\ gen = NoGen
    /\ last = NoLast
    /\ labs = NoLabs

Chains == 1..Len(chains)

\* No call is in progress: the caller has taken the result of the last one.
Idle == last.op = "none"

\* A call returns the chain whose tree has reference id in the heap ts, over
\* the node heap ns.  The caller stores the chain while it has room for one;
\* otherwise the chain lives until the caller is done with the result.
Returns(ns, ts, id, rec) ==
    /\ nodes' = ns
    /\ trees' = ts
    /\ chains' = IF Len(chains) < MaxChains THEN Append(chains, id) ELSE chains
    /\ last' = [rec EXCEPT !.tree = id, !.kept = Len(chains) < MaxChains,
                           !.mark = <<Len(nodes), Len(trees)>>]

\* A call raises, or returns something that is no chain.
Answers(rec) ==
    /\ last' = rec
    /\ UNCHANGED <<nodes, trees, chains>>

\* The caller is done with the result of the call.  A returned chain it did
\* not store is unreferenced now, and so are the nodes made for it: both are
\* reclaimed, and so is a drained generator.
Return ==
    /\ ~Idle
    /\ last.op = "less_qual_iter" => gen.pc = "done"
    /\ last' = NoLast
    /\ gen' = NoGen
    /\ IF last.tree # 0 /\ ~last.kept
       THEN /\ nodes' = SubSeq(nodes, 1, last.mark[1])
            /\ trees' = SubSeq(trees, 1, last.mark[2])
       ELSE UNCHANGED <<nodes, trees>>
    /\ UNCHANGED <<chains, labs>>

(***************************************************************************)
(* ScopeChain constructors and operators.                                  *)
(***************************************************************************)
\* ScopeChain()
New ==
    /\ Idle
    /\ Returns(nodes, Append(trees, ScopeTree_new), Len(trees) + 1,
               [NoLast EXCEPT !.op = "new"])
    /\ UNCHANGED <<gen, labs>>

\* ScopeChain(list)
FromListOf(list) ==
    /\ Idle
    /\ Len(nodes) + Len(list) <= MaxNodes
    /\ LET a == ScopeTree_append_all(nodes, ScopeTree_new, list, TRUE)
       IN Returns(a.nodes, Append(trees, a.tree), Len(trees) + 1,
                  [NoLast EXCEPT !.op = "from_list", !.labels = list])
    /\ UNCHANGED <<gen, labs>>

FromList ==
    \E list \in SeqsUpTo(ChainLabels, MaxListLen) \ {<<>>} : FromListOf(list)

\* ScopeChain(scopechain)
CopyOf(c) ==
    /\ Idle
    /\ LET cp == ScopeTree_copy(trees, chains[c])
       IN Returns(nodes, cp.trees, cp.id, [NoLast EXCEPT !.op = "copy", !.c = c])
    /\ UNCHANGED <<gen, labs>>

Copy == \E c \in Chains : CopyOf(c)

\* chain + label
AddLabelOf(c, l) ==
    /\ Idle
    /\ Len(nodes) < MaxNodes
    /\ LET cp == ScopeTree_copy(trees, chains[c])
           a == ScopeTree_append(nodes, cp.trees[cp.id], l, TRUE)
       IN Returns(a.nodes, [cp.trees EXCEPT ![cp.id] = a.tree], cp.id,
                  [NoLast EXCEPT !.op = "add_label", !.c = c, !.labels = <<l>>])
    /\ UNCHANGED <<gen, labs>>

AddLabel == \E c \in Chains, l \in ChainLabels : AddLabelOf(c, l)

\* chain + otherchain
AddChainOf(c, r) ==
    /\ Idle
    /\ Len(nodes) + Len(ScopeChain_iter(r).val) <= MaxNodes
    /\ IF ScopeChain_iter(r).err # ""
       THEN Answers([NoLast EXCEPT !.op = "add_chain", !.c = c, !.r = r,
                                   !.err = ScopeChain_iter(r).err])
       ELSE LET cp == ScopeTree_copy(trees, chains[c])
                e == ScopeTree_extend(nodes, cp.trees[cp.id], ScopeChain_iter(r).val)
            IN Returns(e.nodes, [cp.trees EXCEPT ![cp.id] = e.tree], cp.id,
                       [NoLast EXCEPT !.op = "add_chain", !.c = c, !.r = r])
    /\ UNCHANGED <<gen, labs>>

AddChain == \E c \in Chains, r \in Chains : AddChainOf(c, r)

\* chain[start:stop:step]
GetSliceOf(c, start, stop, step) ==
    LET g == ScopeTree_getitem_slice(nodes, Tree(c), start, stop, step)
        rec == [NoLast EXCEPT !.op = "slice", !.c = c, !.lo = start, !.hi = stop,
                              !.step = step, !.err = g.err]
    IN /\ Idle
       /\ IF g.err = ""
          THEN Returns(nodes, Append(trees, g.tree), Len(trees) + 1, rec)
          ELSE Answers(rec)
       /\ UNCHANGED <<gen, labs>>

GetSlice ==
    \E c \in Chains, start \in -MaxBound..MaxBound, stop \in -MaxBound..MaxBound :
        GetSliceOf(c, start, stop, 1)

\* chain[0:stop:2]
GetSliceStep == \E c \in Chains, stop \in 0..MaxBound : GetSliceOf(c, 0, stop, 2)

\* chain[key]
GetItemOf(c, key) ==
    LET g == ScopeTree_getitem_int(nodes, Tree(c), key)
    IN /\ Idle
       /\ Answers([NoLast EXCEPT !.op = "index", !.c = c, !.lo = key,
                                 !.err = g.err, !.val = g.val])
       /\ UNCHANGED <<gen, labs>>

GetItem == \E c \in Chains, key \in -MaxBound..MaxBound : GetItemOf(c, key)

\* list(chain)
IterateOf(c) ==
    /\ Idle
    /\ Answers([NoLast EXCEPT !.op = "iter", !.c = c,
                              !.err = ScopeChain_iter(c).err,
                              !.val = ScopeChain_iter(c).val])
    /\ UNCHANGED <<gen, labs>>

Iterate == \E c \in Chains : IterateOf(c)

(***************************************************************************)
(* list(chain.less_qual_iter()).  Calling the method creates the generator *)
(* object; each next() runs its body up to the next yield, and the caller  *)
(* drains the generator before its next call.  tmp_tree is referenced by   *)
(* the generator alone and is kept in its frame; the list holds the chains *)
(* yielded so far.                                                         *)
(***************************************************************************)
LessQualStartOf(c) ==
    /\ Idle
    /\ gen' = [NoGen EXCEPT !.pc = "created", !.self = c]
    /\ Answers([NoLast EXCEPT !.op = "less_qual_iter", !.c = c])
    /\ UNCHANGED labs

LessQualStart == \E c \in Chains : LessQualStartOf(c)

\* yield ScopeChain(tree), leaving the generator in state g.
Yield(tree, g) == gen' = [g EXCEPT !.yielded = Append(@, tree)]

\* The generator raises and is finished.
Raise(e) == gen' = [gen EXCEPT !.pc = "done", !.err = e]

\* The while test of line 322 with tmp_tree = tmp, and what follows it up to
\* the next yield.  A failing assert raises, or is skipped when assertions
\* are stripped (python -O).
LoopHead(tmp) ==
    IF tmp.curr # tmp.root
    THEN Yield(tmp, [gen EXCEPT !.pc = "in_loop", !.tmp = tmp])
    ELSE LET n == ScopeTree_len(tmp)
             holds == n.err = "" /\ n.val = 1
         IN \/ /\ holds
               /\ Yield(tmp, [gen EXCEPT !.pc = "after_root", !.tmp = tmp])
            \/ /\ ~holds
               /\ Raise(IF n.err # "" THEN n.err ELSE "AssertionError")
            \/ /\ ~holds
               /\ Yield(tmp, [gen EXCEPT !.pc = "after_root", !.tmp = tmp])

\* next(generator)
LessQualNext ==
    /\ last.op = "less_qual_iter"
    /\ UNCHANGED <<nodes, trees, chains, last, labs>>
    /\ \/ /\ gen.pc = "created"
          /\ LoopHead(Tree(gen.self))
       \/ /\ gen.pc = "in_loop"
          /\ LoopHead(ScopeTree_new_pop(nodes, gen.tmp))
       \/ /\ gen.pc = "after_root"
          /\ Yield(ScopeTree_new, [gen EXCEPT !.pc = "after_empty"])
       \/ /\ gen.pc = "after_empty"
          /\ gen' = [gen EXCEPT !.pc = "done"]

(***************************************************************************)
(* Rendering.                                                              *)
(***************************************************************************)
\* ScopeChain(list) over the labels of the rendering.
FromRenderList ==
    \E list \in SeqsUpTo(RenderLabels, MaxListLen) \ {<<>>} :
        /\ chains = <<>>
        /\ FromListOf(list)

\* chain.tocode()
TocodeOf(c) ==
    /\ Idle
    /\ Answers([NoLast EXCEPT !.op = "tocode", !.c = c,
                              !.err = ScopeChain_iter(c).err,
                              !.str = ScopeChain_tocode(ScopeChain_iter(c).val)])
    /\ UNCHANGED <<gen, labs>>

Tocode == \E c \in Chains : TocodeOf(c)

(***************************************************************************)
(* Labels.                                                                 *)
(***************************************************************************)
\* ScopeLabel(name, type, loop) into slot a or b; an unknown type raises (the
\* module binds no DefinitionError, so the raise statement ends in a NameError).
ScopeLabel_init(slot, scopename, scopetype, scopeloop) ==
    /\ IF scopetype \notin scopetype_list
       THEN labs' = [labs EXCEPT !.pc = "made", !.err = "NameError"]
       ELSE labs' = [labs EXCEPT !.pc = "made", !.err = "",
                        !.a = IF slot = "a"
                              THEN <<ScopeLabel(scopename, scopetype, scopeloop)>>
                              ELSE @,
                        !.b = IF slot = "b"
                              THEN <<ScopeLabel(scopename, scopetype, scopeloop)>>
                              ELSE @]
    /\ UNCHANGED <<nodes, trees, chains, gen, last>>

MakeLabel ==
    \E slot \in {"a", "b"}, n \in LabelNames, k \in LabelTypes, i \in LabelLoops :
        ScopeLabel_init(slot, n, k, i)

\* a == b, b == a, hash(a), hash(b)
CompareLabels ==
    /\ labs.a # <<>>
    /\ labs.b # <<>>
    /\ labs' = [labs EXCEPT !.pc = "compared", !.err = "",
                   !.eq_ab = ScopeLabel_eq(labs.a[1], labs.b[1]),
                   !.eq_ba = ScopeLabel_eq(labs.b[1], labs.a[1]),
                   !.hash_a = <<ScopeLabel_hash(labs.a[1])>>,
                   !.hash_b = <<ScopeLabel_hash(labs.b[1])>>]
    /\ UNCHANGED <<nodes, trees, chains, gen, last>>

(***************************************************************************)
(* Specifications.                                                         *)
(***************************************************************************)
Next ==
    \/ New
    \/ FromList
    \/ Copy
    \/ AddLabel
    \/ AddChain
    \/ GetSlice
    \/ GetSliceStep
    \/ GetItem
    \/ Iterate
    \/ LessQualStart
    \/ LessQualNext
    \/ Return

Spec == Init /\ [][Next]_vars

NextRender == FromRenderList \/ Tocode \/ Return

SpecRender == Init /\ [][NextRender]_vars

NextLabel == MakeLabel \/ CompareLabels

SpecLabel == Init /\ [][NextLabel]_vars

(***************************************************************************)
(* Vocabulary of the properties.                                           *)
(***************************************************************************)
\* The trees of the chains that exist: the stored ones and the one the call
\* in progress returned.
LiveTrees ==
    {chains[c] : c \in Chains} \cup (IF last.tree # 0 THEN {last.tree} ELSE {})

\* The labels of a tree from root to leaf.
LabelsOf(t) == ScopeTree_iter(nodes, t).val

\* The window invariant of a tree: root is an ancestor-or-self of the leaf and
\* the stored length is the number of nodes from the leaf up to the root.
WindowOk(t) ==
    /\ ScopeTree_walk_ok(nodes, t.curr, t.root)
    /\ t.len >= 0
    /\ t.len = Len(LabelsOf(t))
    /\ (t.len = 0) <=> (t.root = NoneRef /\ t.curr = NoneRef)

IsEmptyChain(t) == t.len = 0 /\ t.root = NoneRef /\ t.curr = NoneRef

SameLabels(s1, s2) ==
    /\ Len(s1) = Len(s2)
    /\ \A i \in 1..Len(s1) : ScopeLabel_eq(s1[i], s2[i])

\* What a caller can observe of the stored chain c.
View(c) ==
    [len |-> Tree(c).len, labels |-> ScopeChain_iter(c), str |-> Tree(c).str,
     hash |-> ScopeChain_hash(c)]

(***************************************************************************)
(* Properties.                                                             *)
(***************************************************************************)
\* C1: two chains whose root-to-leaf label sequences are pairwise equal
\* compare equal and have the same hash, whatever nodes back them.  (Stated
\* for chains that satisfy the window invariant.)
C1_EqualSequencesEqualChains ==
    \A t1 \in LiveTrees, t2 \in LiveTrees :
        (/\ WindowOk(trees[t1])
         /\ WindowOk(trees[t2])
         /\ SameLabels(LabelsOf(trees[t1]), LabelsOf(trees[t2])))
        => /\ ScopeTree_eq(nodes, trees[t1], trees[t2])
           /\ ScopeTree_hash(trees[t1]) = ScopeTree_hash(trees[t2])

\* C2: the empty chain is a two-sided identity of +: c + empty == c and
\* empty + c == c.  (Stated for operands that satisfy the window invariant.)
C2_EmptyIsIdentity ==
    (/\ last.op = "add_chain"
     /\ last.err = ""
     /\ WindowOk(Tree(last.c))
     /\ WindowOk(Tree(last.r)))
    => /\ IsEmptyChain(Tree(last.r))
            => ScopeTree_eq(nodes, trees[last.tree], Tree(last.c))
       /\ IsEmptyChain(Tree(last.c))
            => ScopeTree_eq(nodes, trees[last.tree], Tree(last.r))

\* C3: on a chain of length n >= 0, list(less_qual_iter()) ends without error
\* with n+1 chains of lengths n, n-1, ..., 0, the i-th (from 0) equal to
\* chain[0 : n-i] and the last one empty.
C3_LessQualIter ==
    (gen.pc = "done" /\ WindowOk(Tree(gen.self)))
    => LET n == Tree(gen.self).len
       IN /\ gen.err = ""
          /\ Len(gen.yielded) = n + 1
          /\ \A i \in 0..n :
                LET s == ScopeTree_getitem_slice(nodes, Tree(gen.self), 0, n - i, 1)
                IN /\ gen.yielded[i + 1].len = n - i
                   /\ s.err = ""
                   /\ ScopeTree_eq(nodes, gen.yielded[i + 1], s.tree)
          /\ IsEmptyChain(gen.yielded[n + 1])

\* The case of C4: tocode() of a chain made of a `for` label with a loop index
\* followed by a printable label with a name.
C4_Case ==
    /\ last.op = "tocode"
    /\ last.err = ""
    /\ Len(ScopeChain_iter(last.c).val) = 2
    /\ ScopeChain_iter(last.c).val[1].scopetype = "for"
    /\ ScopeChain_iter(last.c).val[1].scopeloop # <<>>
    /\ isPrintable(ScopeChain_iter(last.c).val[2])
    /\ ScopeChain_iter(last.c).val[2].scopename # <<>>

\* C4 as claimed: the chain renders as "_" + i + "_" + n, the loop-index token
\* before the name.
C4_TokenBeforeName ==
    C4_Case =>
        last.str = <<"_">> \o str_int(ScopeChain_iter(last.c).val[1].scopeloop[1])
                     \o <<"_">> \o ScopeChain_iter(last.c).val[2].scopename

\* C4 as amended: the chain renders as n + "_" + i + "_", the name before the
\* loop-index token.
C4_NameBeforeToken ==
    C4_Case =>
        last.str = ScopeChain_iter(last.c).val[2].scopename \o <<"_">>
                     \o str_int(ScopeChain_iter(last.c).val[1].scopeloop[1])
                     \o <<"_">>

\* C4 witness: [("L", for, 3), ("body", block)] was rendered, as "body_3_".
C4_Witness ==
    /\ last.op = "tocode"
    /\ ScopeChain_iter(last.c).val
         = <<ScopeLabel(<<"L">>, "for", <<3>>),
             ScopeLabel(<<"b", "o", "d", "y">>, "block", <<>>)>>
    /\ last.str = <<"b", "o", "d", "y", "_", "3", "_">>

\* A slice bound of a chain of length n that lies outside [-n, n].
OutOfRange(b, n) == b > n \/ b < -n

\* The bound b brought into [0, n]: counted from the end when negative, then
\* cut off at 0 and at n.
Clamped(b, n) ==
    IF b < -n THEN 0 ELSE IF b < 0 THEN b + n ELSE IF b > n THEN n ELSE b

\* The case of C5: a step-1 slice of a chain of length n >= 0 with a bound
\* outside [-n, n].
C5_Case ==
    /\ last.op = "slice"
    /\ last.step = 1
    /\ Tree(last.c).len >= 0
    /\ \/ OutOfRange(last.lo, Tree(last.c).len)
       \/ OutOfRange(last.hi, Tree(last.c).len)

C6_AppendLength ==
    last.op = "add_label"
    => LET out == trees[last.tree]
           item == ScopeTree_getitem_int(nodes, out, -1)
       IN /\ ScopeTree_len(out).err = ""
          /\ ScopeTree_len(Tree(last.c)).err = ""
          /\ ScopeTree_len(out).val = ScopeTree_len(Tree(last.c)).val + 1
          /\ item.err = ""
          /\ ScopeLabel_eq(item.val[1], last.labels[1])

\* C7: (name, K, idx) and (name, any, idx) with K other than any compare equal
\* in both directions and have the same hash; any two labels that compare
\* equal have the same hash.
C7_WildcardEqualityAndHash ==
    labs.pc = "compared"
    => LET a == labs.a[1]
           b == labs.b[1]
       IN /\ (/\ a.scopename = b.scopename
              /\ a.scopeloop = b.scopeloop
              /\ a.scopetype # "any"
              /\ b.scopetype = "any")
             => (labs.eq_ab /\ labs.eq_ba /\ labs.hash_a = labs.hash_b)
          /\ (labs.eq_ab \/ labs.eq_ba) => labs.hash_a = labs.hash_b

\* C7 witness: ("a", for, 1) and ("a", any, 1) were compared and are equal.
C7_Witness ==
    /\ labs.pc = "compared"
    /\ labs.a[1] = ScopeLabel(<<"a">>, "for", <<1>>)
    /\ labs.b[1] = ScopeLabel(<<"a">>, "any", <<1>>)
    /\ labs.eq_ab
    /\ labs.eq_ba

\* C8: no step changes a chain that existed before it: its length, its labels
\* from root to leaf, its string form and its hash stay what they were.
C8_PersistentUpdate ==
    [][\A c \in Chains : c \in DOMAIN chains' /\ View(c)' = View(c)]_vars

\* C8 witness: a chain was appended to a non-empty chain c while another
\* stored chain shares the leaf node of c.
C8_Witness ==
    /\ last.op \in {"add_label", "add_chain"}
    /\ last.err = ""
    /\ Tree(last.c).curr # NoneRef
    /\ trees[last.tree].len > Tree(last.c).len
    /\ \E d \in Chains :
          /\ d # last.c
          /\ chains[d] # last.tree
          /\ Tree(d).curr = Tree(last.c).curr

\* C9: every chain has its root on the ancestor chain of its leaf and a stored
\* length that is non-negative and counts the nodes from leaf to root.
C9_WindowInvariant ==
    /\ \A t \in LiveTrees : WindowOk(trees[t])
    /\ \A i \in 1..Len(gen.yielded) : WindowOk(gen.yielded[i])

\* C10: two chains that compare equal have the same length and pairwise equal
\* labels at every position.  (Stated for chains that satisfy the window
\* invariant.)
C10_EqualChainsEqualSequences ==
    \A t1 \in LiveTrees, t2 \in LiveTrees :
        (/\ WindowOk(trees[t1])
         /\ WindowOk(trees[t2])
         /\ ScopeTree_eq(nodes, trees[t1], trees[t2]))
        => SameLabels(LabelsOf(trees[t1]), LabelsOf(trees[t2]))

====
